---- MODULE Spec2Model ----
(***************************************************************************)
(* Model of the 6502 core of rusty-nes: CPU::advance_cpu (fetch, decode,   *)
(* execute, pc advance) over the CPU struct, its StatusRegister and the    *)
(* shared memory bus.  Integer arithmetic follows Rust semantics: an       *)
(* overflowing +, - or << panics in a debug build and wraps (or masks the   *)
(* shift amount) in a release build; the build is chosen at start.        *)
(***************************************************************************)
EXTENDS Integers, Sequences, FiniteSets, TLC

\* Number of advance_cpu steps explored from each initial state.
MaxSteps == 3

VARIABLES cpu, build, fault, lastAcc, hist

vars == <<cpu, build, fault, lastAcc, hist>>

(***************************************************************************)
(* Integer helpers (Rust casts and bit operations on u8/u16/i8/i16).       *)
(***************************************************************************)
Bit(v, k) == (v \div (2 ^ k)) % 2

\* `a | b` and `a & b` on u16 values, bit by bit
BitOr(a, b) ==
    LET bit(k) == IF Bit(a, k) = 1 \/ Bit(b, k) = 1 THEN 2 ^ k ELSE 0
    IN bit(0) + bit(1) + bit(2) + bit(3) + bit(4) + bit(5) + bit(6) + bit(7)
       + bit(8) + bit(9) + bit(10) + bit(11) + bit(12) + bit(13) + bit(14) + bit(15)

BitAnd(a, b) ==
    LET bit(k) == IF Bit(a, k) = 1 /\ Bit(b, k) = 1 THEN 2 ^ k ELSE 0
    IN bit(0) + bit(1) + bit(2) + bit(3) + bit(4) + bit(5) + bit(6) + bit(7)
       + bit(8) + bit(9) + bit(10) + bit(11) + bit(12) + bit(13) + bit(14) + bit(15)

\* u8 << k: the shift amount is masked to 3 bits (release), bits above 7 are lost
ShlU8(v, k) == (v * (2 ^ (k % 8))) % 256

\* `v as i8` / `v as i16` for a u8 / u16 bit pattern
ToI8(v) == IF v >= 128 THEN v - 256 ELSE v
ToI16(v) == IF v >= 32768 THEN v - 65536 ELSE v

\* `v.wrapping_*` result on i8, and whether an i8 `+` / `-` result is out of range
WrapI8(v) == ((v + 128) % 256) - 128
I8Overflows(v) == v > 127 \/ v < -128

\* `v >> k` on an i8 (arithmetic shift, rounds toward minus infinity)
SarI8(v, k) == v \div (2 ^ k)

\* `a ^ b` computed as `a | b` (both bits set give 1)
BitXor_as_or(a, b) ==
    LET bit(k) == IF Bit(a, k) = 1 \/ Bit(b, k) = 1 THEN 2 ^ k ELSE 0
    IN bit(0) + bit(1) + bit(2) + bit(3) + bit(4) + bit(5) + bit(6) + bit(7)

\* `a ^ b` on u8 values, bit by bit
BitXor(a, b) ==
    LET bit(k) == IF Bit(a, k) # Bit(b, k) THEN 2 ^ k ELSE 0
    IN bit(0) + bit(1) + bit(2) + bit(3) + bit(4) + bit(5) + bit(6) + bit(7)

(***************************************************************************)
(* Memory bus: flat 64KB, every byte 0xFF at power-on (Memory::new).       *)
(* Only written cells are stored.                                           *)
(***************************************************************************)
ZERO_PAGE_START == 0
STACK_TOP == 256

Read(mem, a) == IF a \in DOMAIN mem THEN mem[a] ELSE 255

Write(mem, a, v) == [k \in DOMAIN mem \cup {a} |-> IF k = a THEN v ELSE mem[k]]

(***************************************************************************)
(* Instruction::new: the decode table.                                     *)
(***************************************************************************)
Instr(op, mode, cyc, sz) == [op |-> op, addr_mode |-> mode, cycles |-> cyc, size |-> sz]

OpTable ==
    (0 :> Instr("BRK", "Implicit", 7, 1))
 @@ (1 :> Instr("ORA", "IndexedIndirect", 6, 2))
 @@ (5 :> Instr("ORA", "ZeroPage", 3, 2))
 @@ (6 :> Instr("ASL", "ZeroPage", 5, 2))
 @@ (8 :> Instr("PHP", "Implicit", 3, 1))
 @@ (9 :> Instr("ORA", "Immediate", 2, 2))
 @@ (10 :> Instr("ASL", "Accumulator", 2, 1))
 @@ (13 :> Instr("ORA", "Absolute", 4, 3))
 @@ (14 :> Instr("ASL", "Absolute", 6, 3))
 @@ (16 :> Instr("BPL", "Relative", 2, 2))
 @@ (17 :> Instr("ORA", "IndirectIndexed", 5, 2))
 @@ (21 :> Instr("ORA", "ZeroPageX", 4, 2))
 @@ (22 :> Instr("ASL", "ZeroPageX", 6, 2))
 @@ (24 :> Instr("CLC", "Implicit", 2, 1))
 @@ (25 :> Instr("ORA", "AbsoluteY", 4, 2))
 @@ (29 :> Instr("ORA", "AbsoluteX", 4, 3))
 @@ (30 :> Instr("ASL", "AbsoluteX", 7, 3))
 @@ (32 :> Instr("JSR", "Relative", 6, 3))
 @@ (33 :> Instr("AND", "IndexedIndirect", 6, 2))
 @@ (36 :> Instr("BIT", "ZeroPage", 3, 2))
 @@ (37 :> Instr("AND", "ZeroPage", 3, 2))
 @@ (38 :> Instr("ROL", "ZeroPage", 5, 2))
 @@ (40 :> Instr("PLP", "Implicit", 4, 1))
 @@ (41 :> Instr("AND", "Immediate", 2, 2))
 @@ (42 :> Instr("ROL", "Accumulator", 2, 1))
 @@ (44 :> Instr("BIT", "Absolute", 4, 3))
 @@ (45 :> Instr("AND", "Absolute", 4, 3))
 @@ (46 :> Instr("ROL", "Absolute", 6, 3))
 @@ (48 :> Instr("BMI", "Relative", 2, 2))
 @@ (49 :> Instr("AND", "IndirectIndexed", 5, 2))
 @@ (53 :> Instr("AND", "ZeroPageX", 4, 2))
 @@ (54 :> Instr("ROL", "ZeroPageX", 6, 2))
 @@ (56 :> Instr("SEC", "Implicit", 2, 1))
 @@ (57 :> Instr("AND", "AbsoluteY", 4, 3))
 @@ (61 :> Instr("AND", "AbsoluteX", 4, 3))
 @@ (62 :> Instr("ROL", "AbsoluteX", 7, 3))
 @@ (64 :> Instr("RTI", "Implicit", 6, 1))
 @@ (65 :> Instr("EOR", "IndexedIndirect", 6, 2))
 @@ (69 :> Instr("EOR", "ZeroPage", 3, 2))
 @@ (70 :> Instr("LSR", "ZeroPage", 5, 2))
 @@ (72 :> Instr("PHA", "Implicit", 3, 1))
 @@ (73 :> Instr("EOR", "Immediate", 2, 2))
 @@ (74 :> Instr("LSR", "Accumulator", 2, 1))
 @@ (76 :> Instr("JMP", "Absolute", 3, 3))
 @@ (77 :> Instr("EOR", "Absolute", 4, 3))
 @@ (78 :> Instr("LSR", "Absolute", 6, 3))
 @@ (80 :> Instr("BVC", "Relative", 2, 2))
 @@ (81 :> Instr("EOR", "IndirectIndexed", 5, 2))
 @@ (85 :> Instr("EOR", "ZeroPageX", 4, 2))
 @@ (86 :> Instr("LSR", "ZeroPageX", 6, 2))
 @@ (88 :> Instr("CLI", "Implicit", 2, 1))
 @@ (89 :> Instr("EOR", "AbsoluteY", 4, 3))
 @@ (93 :> Instr("EOR", "AbsoluteX", 4, 3))
 @@ (94 :> Instr("LSR", "AbsoluteX", 7, 3))
 @@ (96 :> Instr("RTS", "Implicit", 6, 1))
 @@ (97 :> Instr("ADC", "IndexedIndirect", 6, 2))
 @@ (101 :> Instr("ADC", "ZeroPage", 3, 2))
 @@ (102 :> Instr("ROR", "ZeroPage", 5, 2))
 @@ (104 :> Instr("PLA", "Implicit", 4, 1))
 @@ (105 :> Instr("ADC", "Immediate", 2, 2))
 @@ (106 :> Instr("ROR", "Accumulator", 2, 1))
 @@ (108 :> Instr("JMP", "Indirect", 5, 3))
 @@ (109 :> Instr("ADC", "Absolute", 4, 3))
 @@ (110 :> Instr("ROR", "Absolute", 6, 3))
 @@ (112 :> Instr("BVS", "Relative", 2, 2))
 @@ (113 :> Instr("ADC", "IndirectIndexed", 5, 2))
 @@ (117 :> Instr("ADC", "ZeroPageX", 4, 2))
 @@ (118 :> Instr("ROR", "ZeroPageX", 6, 2))
 @@ (120 :> Instr("SEI", "Implicit", 2, 1))
 @@ (121 :> Instr("ADC", "AbsoluteY", 4, 3))
 @@ (125 :> Instr("ADC", "AbsoluteX", 4, 3))
 @@ (126 :> Instr("ROR", "AbsoluteX", 7, 3))
 @@ (129 :> Instr("STA", "IndexedIndirect", 6, 2))
 @@ (132 :> Instr("STY", "ZeroPage", 3, 2))
 @@ (133 :> Instr("STA", "ZeroPage", 3, 2))
 @@ (134 :> Instr("STX", "ZeroPage", 3, 2))
 @@ (136 :> Instr("DEY", "Implicit", 2, 1))
 @@ (138 :> Instr("TXA", "Implicit", 2, 1))
 @@ (140 :> Instr("STY", "Absolute", 4, 3))
 @@ (141 :> Instr("STA", "Absolute", 4, 3))
 @@ (142 :> Instr("STX", "Absolute", 4, 3))
 @@ (144 :> Instr("BCC", "Relative", 2, 2))
 @@ (145 :> Instr("STA", "IndirectIndexed", 6, 2))
 @@ (148 :> Instr("STY", "ZeroPageX", 4, 2))
 @@ (149 :> Instr("STA", "ZeroPageX", 4, 2))
 @@ (150 :> Instr("STX", "ZeroPageY", 4, 2))
 @@ (152 :> Instr("TYA", "Implicit", 2, 1))
 @@ (153 :> Instr("STA", "AbsoluteY", 5, 3))
 @@ (154 :> Instr("TXS", "Implicit", 2, 1))
 @@ (157 :> Instr("STA", "AbsoluteX", 5, 3))
 @@ (160 :> Instr("LDY", "Immediate", 2, 2))
 @@ (161 :> Instr("LDA", "IndexedIndirect", 6, 2))
 @@ (162 :> Instr("LDX", "Immediate", 2, 2))
 @@ (164 :> Instr("LDY", "ZeroPage", 3, 2))
 @@ (165 :> Instr("LDA", "ZeroPage", 3, 2))
 @@ (166 :> Instr("LDA", "ZeroPage", 3, 2))
 @@ (168 :> Instr("TAY", "Implicit", 2, 1))
 @@ (169 :> Instr("LDA", "Immediate", 2, 2))
 @@ (170 :> Instr("TAX", "Implicit", 2, 1))
 @@ (172 :> Instr("LDY", "Absolute", 4, 3))
 @@ (173 :> Instr("LDA", "Absolute", 4, 3))
 @@ (174 :> Instr("LDX", "Absolute", 4, 3))
 @@ (176 :> Instr("BCS", "Relative", 2, 2))
 @@ (177 :> Instr("LDA", "IndirectIndexed", 5, 2))
 @@ (180 :> Instr("LDY", "ZeroPageX", 4, 2))
 @@ (181 :> Instr("LDA", "ZeroPageX", 4, 2))
 @@ (182 :> Instr("LDX", "ZeroPageY", 4, 2))
 @@ (184 :> Instr("CLV", "Implicit", 2, 1))
 @@ (185 :> Instr("LDA", "AbsoluteY", 4, 3))
 @@ (186 :> Instr("TSX", "Implicit", 2, 1))
 @@ (188 :> Instr("LDY", "AbsoluteX", 4, 3))
 @@ (189 :> Instr("LDA", "AbsoluteX", 4, 3))
 @@ (190 :> Instr("LDX", "AbsoluteY", 4, 3))
 @@ (192 :> Instr("CPY", "Immediate", 2, 2))
 @@ (193 :> Instr("CMP", "IndexedIndirect", 6, 2))
 @@ (196 :> Instr("CPY", "ZeroPage", 3, 2))
 @@ (197 :> Instr("CMP", "ZeroPage", 3, 2))
 @@ (198 :> Instr("DEC", "ZeroPage", 5, 2))
 @@ (200 :> Instr("INY", "Implicit", 2, 1))
 @@ (201 :> Instr("CMP", "Immediate", 2, 2))
 @@ (202 :> Instr("DEX", "Implicit", 2, 1))
 @@ (204 :> Instr("CPY", "Absolute", 4, 3))
 @@ (205 :> Instr("CMP", "Absolute", 4, 3))
 @@ (206 :> Instr("DEC", "Absolute", 6, 3))
 @@ (208 :> Instr("BNE", "Relative", 2, 2))
 @@ (209 :> Instr("CMP", "IndirectIndexed", 5, 2))
 @@ (213 :> Instr("CMP", "ZeroPageX", 4, 2))
 @@ (214 :> Instr("DEC", "ZeroPageX", 6, 2))
 @@ (216 :> Instr("CLD", "Implicit", 2, 1))
 @@ (217 :> Instr("CMP", "AbsoluteY", 4, 3))
 @@ (221 :> Instr("CMP", "AbsoluteX", 4, 3))
 @@ (222 :> Instr("DEC", "AbsoluteX", 7, 3))
 @@ (224 :> Instr("CPX", "Immediate", 2, 2))
 @@ (225 :> Instr("SBC", "IndexedIndirect", 6, 2))
 @@ (228 :> Instr("CPX", "ZeroPage", 3, 2))
 @@ (229 :> Instr("SBC", "ZeroPage", 3, 2))
 @@ (230 :> Instr("INC", "ZeroPage", 5, 2))
 @@ (232 :> Instr("INX", "Implicit", 2, 1))
 @@ (233 :> Instr("SBC", "Immediate", 2, 2))
 @@ (234 :> Instr("NOP", "Implicit", 2, 1))
 @@ (236 :> Instr("CPX", "Absolute", 4, 3))
 @@ (237 :> Instr("SBC", "Absolute", 4, 3))
 @@ (238 :> Instr("INC", "Absolute", 6, 3))
 @@ (240 :> Instr("BEQ", "Relative", 2, 2))
 @@ (241 :> Instr("SBC", "IndirectIndexed", 5, 2))
 @@ (245 :> Instr("SBC", "ZeroPageX", 4, 2))
 @@ (246 :> Instr("INC", "ZeroPageX", 6, 2))
 @@ (248 :> Instr("SED", "Implicit", 2, 1))
 @@ (249 :> Instr("SBC", "AbsoluteY", 4, 3))
 @@ (253 :> Instr("SBC", "AbsoluteX", 4, 3))
 @@ (254 :> Instr("INC", "AbsoluteX", 7, 3))

Instruction_new(opcode) ==
    IF opcode \in DOMAIN OpTable THEN OpTable[opcode]
    ELSE Instr("NOP", "Implicit", 2, 1)

(***************************************************************************)
(* StatusRegister                                                          *)
(***************************************************************************)
\* c | (z << 1) | (i << 2) | (d << 3) | (b << 4) | (bit_5 << 5) | (v << 6) | (n << 7)
\* on u8: bit j of the result is set when some field f, shifted by k <= j, has bit j - k
get_flags(s) ==
    LET f == <<s.c, s.z, s.i, s.d, s.b, s.bit_5, s.v, s.n>>
        bit(j) == IF \E k \in 0..j : Bit(f[k + 1], j - k) = 1 THEN 2 ^ j ELSE 0
    IN bit(0) + bit(1) + bit(2) + bit(3) + bit(4) + bit(5) + bit(6) + bit(7)

set_flags(flags) ==
    [c |-> BitAnd(flags, 1), z |-> BitAnd(flags, 2), i |-> BitAnd(flags, 4),
     d |-> BitAnd(flags, 8), b |-> BitAnd(flags, 16), bit_5 |-> BitAnd(flags, 32),
     v |-> BitAnd(flags, 64), n |-> BitAnd(flags, 128)]

(***************************************************************************)
(* Execution context threaded through one advance_cpu call: the CPU, the   *)
(* panic reason ("none" while running), the stack addresses touched, and   *)
(* the last value / address produced by get_operand or pop_byte.  Each     *)
(* operator on a context binds its arguments once (F[E \in {E0}]), as a    *)
(* Rust call evaluates its arguments once.                                 *)
(***************************************************************************)
Running(E) == E.fault = "none"

Panic(E0, why0) ==
    LET F[E \in {E0}, why \in {why0}] ==
          IF Running(E) THEN [E EXCEPT !.fault = why] ELSE E
    IN F[E0, why0]

push_byte(E0, data0) ==
    LET F[E \in {E0}, data \in {data0}] ==
          IF ~Running(E) THEN E
          ELSE LET a == STACK_TOP + E.cpu.sp
               IN IF E.cpu.sp = 0 /\ build = "debug"
                  THEN [E EXCEPT !.cpu.mem = Write(@, a, data), !.acc = @ \cup {a},
                                 !.fault = "sp_overflow"]
                  ELSE [E EXCEPT !.cpu.mem = Write(@, a, data), !.acc = @ \cup {a},
                                 !.cpu.sp = (@ - 1) % 256]
    IN F[E0, data0]

pop_byte_read_first(E0) ==
    LET F[E \in {E0}] ==
          IF ~Running(E) THEN E
          ELSE IF E.cpu.sp = 255 /\ build = "debug"
               THEN [E EXCEPT !.fault = "sp_overflow"]
               ELSE LET a == STACK_TOP + E.cpu.sp
                    IN [E EXCEPT !.cpu.sp = (@ + 1) % 256, !.val = Read(E.cpu.mem, a),
                                 !.acc = @ \cup {a}]
    IN F[E0]

pop_byte(E0) ==
    LET F[E \in {E0}] ==
          IF ~Running(E) THEN E
          ELSE IF E.cpu.sp = 255 /\ build = "debug"
               THEN [E EXCEPT !.fault = "sp_overflow"]
               ELSE LET a == STACK_TOP + ((E.cpu.sp + 1) % 256)
                    IN [E EXCEPT !.cpu.sp = (@ + 1) % 256, !.val = Read(E.cpu.mem, a),
                                 !.acc = @ \cup {a}]
    IN F[E0]

\* `(self.mem.read(p) << 8) as u16` on a u8: panics in debug, masked in release
ReadShl8(E, p) == ShlU8(Read(E.cpu.mem, p), 8)

\* little-endian pair read at p, p + 1 as get_operand writes it:
\* read(p) as u16 | (read(p + 1) << 8) as u16, left in .val
ReadAddr(E0, p0) ==
    LET F[E \in {E0}, p \in {p0}] ==
          IF ~Running(E) THEN E
          ELSE IF p = 65535 /\ build = "debug" THEN Panic(E, "u16_overflow")
          ELSE IF build = "debug" THEN Panic(E, "shl_overflow")
          ELSE [E EXCEPT !.val = BitOr(Read(E.cpu.mem, p), ReadShl8(E, (p + 1) % 65536))]
    IN F[E0, p0]

\* (self.mem.read(addr) as i8, Some(addr)) for the address in .val
Deref(E0) ==
    LET F[E \in {E0}] ==
          IF ~Running(E) THEN E
          ELSE [E EXCEPT !.val = Read(E.cpu.mem, E.val), !.addr = <<E.val>>]
    IN F[E0]

\* AddrMode::Indirect, second fetch, from the pointer in_addr held in .val
IndirectFetch(E0) ==
    LET F[E \in {E0}] ==
          LET in_addr == E.val
          IN IF ~Running(E) THEN E
             ELSE IF in_addr = 65535 /\ build = "debug" THEN Panic(E, "u16_overflow")
             ELSE IF (in_addr + 1) % 256 = 0
                  THEN ReadAddr(E, in_addr)
                  ELSE IF build = "debug" THEN Panic(E, "shl_overflow")
                  ELSE [E EXCEPT !.val = BitOr(Read(E.cpu.mem, in_addr),
                                               ReadShl8(E, BitAnd(in_addr, 65280)))]
    IN F[E0]

\* zero-page index: ZERO_PAGE_START + ((read(pc) + idx as u8) % m) as u16;
\* the u8 addition panics in debug when it exceeds 255
ZpIndex(E0, idx0, m0) ==
    LET F[E \in {E0}, idx \in {idx0}, m \in {m0}] ==
          LET sum == Read(E.cpu.mem, E.cpu.pc) + idx
          IN IF ~Running(E) THEN E
             ELSE IF sum > 255 /\ build = "debug" THEN Panic(E, "u8_overflow")
             ELSE [E EXCEPT !.val = ZERO_PAGE_START + ((sum % 256) % m)]
    IN F[E0, idx0, m0]

\* address in .val plus `idx as u16` for an i8 register (sign-extended);
\* the u16 addition panics in debug when it exceeds 65535
AddIndex(E0, idx0) ==
    LET F[E \in {E0}, idx \in {idx0}] ==
          LET sum == E.val + (IF idx >= 128 THEN idx + 65280 ELSE idx)
          IN IF ~Running(E) THEN E
             ELSE IF sum > 65535 /\ build = "debug" THEN Panic(E, "u16_overflow")
             ELSE [E EXCEPT !.val = sum % 65536]
    IN F[E0, idx0]

\* little-endian pair read at the pointer in .val (IndexedIndirect, IndirectIndexed)
PointerFetch(E0) ==
    LET F[E \in {E0}] ==
          IF ~Running(E) THEN E ELSE ReadAddr(E, E.val)
    IN F[E0]

get_operand(E0, addr_mode0) ==
    LET F[E \in {E0}, addr_mode \in {addr_mode0}] ==
          IF ~Running(E) THEN E
          ELSE CASE addr_mode \in {"Immediate", "Relative"} ->
                      [E EXCEPT !.val = Read(E.cpu.mem, E.cpu.pc), !.addr = << >>]
                 [] addr_mode = "Absolute" -> Deref(ReadAddr(E, E.cpu.pc))
                 [] addr_mode = "Indirect" -> Deref(IndirectFetch(ReadAddr(E, E.cpu.pc)))
                 [] addr_mode = "ZeroPage" ->
                      Deref([E EXCEPT !.val = ZERO_PAGE_START + Read(E.cpu.mem, E.cpu.pc)])
                 [] addr_mode = "ZeroPageX" -> Deref(ZpIndex(E, E.cpu.x, 255))
                 [] addr_mode = "ZeroPageY" -> Deref(ZpIndex(E, E.cpu.y, 256))
                 [] addr_mode = "AbsoluteX" -> Deref(AddIndex(ReadAddr(E, E.cpu.pc), E.cpu.x))
                 [] addr_mode = "AbsoluteY" -> Deref(AddIndex(ReadAddr(E, E.cpu.pc), E.cpu.y))
                 [] addr_mode = "IndexedIndirect" -> Deref(PointerFetch(ZpIndex(E, E.cpu.x, 256)))
                 [] addr_mode = "IndirectIndexed" ->
                      Deref(AddIndex(PointerFetch([E EXCEPT !.val = ZERO_PAGE_START + Read(E.cpu.mem, E.cpu.pc)]),
                                     E.cpu.y))
                 [] addr_mode = "Accumulator" -> [E EXCEPT !.val = E.cpu.accum, !.addr = << >>]
                 [] OTHER -> [E EXCEPT !.val = 0, !.addr = << >>]
    IN F[E0, addr_mode0]

\* page_crossed(old_addr, new_addr): old_addr >> 7 == new_addr >> 7
page_crossed(old_addr, new_addr) == (old_addr \div 128) = (new_addr \div 128)

\* self.tick_clock()
tick_clock(E0) ==
    LET F[E \in {E0}] == [E EXCEPT !.cpu.cycle = @ + 1]
    IN F[E0]

\* taken branch body: new_pc = (pc as i16 + operand as i16) as u16, with the
\* page_crossed tick, then pc = new_pc and one more tick
BranchTo(E0) ==
    LET F[E \in {E0}] ==
          LET sum == ToI16(E.cpu.pc) + ToI8(E.val)
          IN IF ~Running(E) THEN E
             ELSE IF (sum > 32767 \/ sum < -32768) /\ build = "debug"
             THEN Panic(E, "i16_overflow")
             ELSE LET new_pc == sum % 65536
                      ticks == IF page_crossed(E.cpu.pc, new_pc) THEN 2 ELSE 1
                  IN [E EXCEPT !.cpu.pc = new_pc, !.cpu.cycle = @ + ticks]
    IN F[E0]

\* BCC .. BVS: branch taken when `taken` (the flag test) holds
Branch(E0, taken0) ==
    LET F[E \in {E0}, taken \in {taken0}] ==
          IF taken THEN BranchTo(E) ELSE E
    IN F[E0, taken0]

\* Z / N update reading the result as unsigned (`x < 0` never holds)
SetZN_unsigned(E0, r0) ==
    LET F[E \in {E0}, r \in {r0}] ==
          [E EXCEPT !.cpu.status.z = IF r = 0 THEN 1 ELSE 0,
                    !.cpu.status.n = IF r < 0 THEN 1 ELSE 0]
    IN F[E0, r0]

\* Z / N update from an 8-bit result (`x == 0`, `x < 0` on an i8)
SetZN(E0, r0) ==
    LET F[E \in {E0}, r \in {r0}] ==
          [E EXCEPT !.cpu.status.z = IF r = 0 THEN 1 ELSE 0,
                    !.cpu.status.n = IF ToI8(r) < 0 THEN 1 ELSE 0]
    IN F[E0, r0]

\* `addr.unwrap()` followed by `self.pc = addr`
JumpTo(E0) ==
    LET F[E \in {E0}] ==
          IF ~Running(E) THEN E
          ELSE IF E.addr = << >> THEN Panic(E, "unwrap_none")
          ELSE [E EXCEPT !.cpu.pc = E.addr[1]]
    IN F[E0]

\* signed_overflow_add(x, y) on i8 values
signed_overflow_add(x, y) ==
    \/ (x > 0 /\ y > 0 /\ WrapI8(x + y) <= 0)
    \/ (x < 0 /\ y < 0 /\ WrapI8(x + y) >= 0)

\* signed_overflow_sub(x, y) on i8 values
signed_overflow_sub(x, y) ==
    \/ (x > 0 /\ y > 0 /\ x > y /\ WrapI8(x - y) <= 0)
    \/ (x > 0 /\ y > 0 /\ x < y /\ WrapI8(x - y) >= 0)
    \/ (x > 0 /\ y < 0 /\ WrapI8(x - y) < 0)
    \/ (x < 0 /\ y > 0 /\ WrapI8(x - y) > 0)

\* ADC after get_operand (operand in .val): V from signed_overflow_add,
\* C from accum.checked_add, then accum.wrapping_add(operand + c) with the
\* carry just written; each `operand + c` is an i8 addition
ADC_exec(E0) ==
    LET F[E \in {E0}] ==
          LET A == ToI8(E.cpu.accum)
              o == ToI8(E.val)
              t1 == o + E.cpu.status.c
          IN IF ~Running(E) THEN E
             ELSE IF I8Overflows(t1) /\ build = "debug" THEN Panic(E, "i8_overflow")
             ELSE LET y == WrapI8(t1)
                      v == IF signed_overflow_add(A, y) THEN 1 ELSE 0
                      c == IF I8Overflows(A + y) THEN 1 ELSE 0
                      t2 == o + c
                  IN IF I8Overflows(t2) /\ build = "debug"
                     THEN Panic([E EXCEPT !.cpu.status.v = v, !.cpu.status.c = c], "i8_overflow")
                     ELSE [E EXCEPT !.cpu.status.v = v, !.cpu.status.c = c,
                                    !.cpu.accum = WrapI8(A + WrapI8(t2)) % 256]
    IN F[E0]

\* SBC after get_operand: V from signed_overflow_sub(accum, operand - (1 - c)),
\* C from accum.checked_add(operand - (1 - c)), then
\* accum.wrapping_sub(operand + c) with the carry just written
SBC_exec(E0) ==
    LET F[E \in {E0}] ==
          LET A == ToI8(E.cpu.accum)
              o == ToI8(E.val)
              t1 == o - (1 - E.cpu.status.c)
          IN IF ~Running(E) THEN E
             ELSE IF I8Overflows(t1) /\ build = "debug" THEN Panic(E, "i8_overflow")
             ELSE LET y == WrapI8(t1)
                      v == IF signed_overflow_sub(A, y) THEN 1 ELSE 0
                      c == IF I8Overflows(A + y) THEN 1 ELSE 0
                      t2 == o + c
                  IN IF I8Overflows(t2) /\ build = "debug"
                     THEN Panic([E EXCEPT !.cpu.status.v = v, !.cpu.status.c = c], "i8_overflow")
                     ELSE [E EXCEPT !.cpu.status.v = v, !.cpu.status.c = c,
                                    !.cpu.accum = WrapI8(A - WrapI8(t2)) % 256]
    IN F[E0]

\* CMP / CPX / CPY after get_operand, reg the compared register (u8 pattern):
\* C = reg >= operand, Z = reg == operand, N = reg - operand < 0, all on i8
Compare(E0, reg0) ==
    LET F[E \in {E0}, reg \in {reg0}] ==
          LET r == ToI8(reg)
              o == ToI8(E.val)
              E1 == [E EXCEPT !.cpu.status.c = IF r >= o THEN 1 ELSE 0,
                              !.cpu.status.z = IF r = o THEN 1 ELSE 0]
          IN IF ~Running(E) THEN E
             ELSE IF I8Overflows(r - o) /\ build = "debug" THEN Panic(E1, "i8_overflow")
             ELSE [E1 EXCEPT !.cpu.status.n = IF WrapI8(r - o) < 0 THEN 1 ELSE 0]
    IN F[E0, reg0]

\* `if let Some(addr) = addr { mem.write(addr, result) } else { accum = result }`
StoreResult(E0, r0) ==
    LET F[E \in {E0}, r \in {r0}] ==
          IF ~Running(E) THEN E
          ELSE IF E.addr # << >> THEN [E EXCEPT !.cpu.mem = Write(@, E.addr[1], r)]
          ELSE [E EXCEPT !.cpu.accum = r]
    IN F[E0, r0]

\* ASL: C if (operand & (1 << 7)) >> 7 == 1 on i8, result = operand << 1,
\* N if (result & (1 << 7)) >> 7 == 1; 1 << 7 is the i8 -128 (pattern 0x80)
ASL_exec(E0) ==
    LET F[E \in {E0}] ==
          LET result == (E.val * 2) % 256
              c == IF SarI8(ToI8(BitAnd(E.val, 128)), 7) = 1 THEN 1 ELSE 0
              n == IF SarI8(ToI8(BitAnd(result, 128)), 7) = 1 THEN 1 ELSE 0
          IN IF ~Running(E) THEN E
             ELSE StoreResult([E EXCEPT !.cpu.status.c = c, !.cpu.status.n = n], result)
    IN F[E0]

\* LSR: C if operand & (1 << 7) == 1 on i8, result = (operand as u8) >> 1, N cleared
LSR_exec(E0) ==
    LET F[E \in {E0}] ==
          LET sign_bit == ToI8(BitAnd(E.val, 128))
              c == IF sign_bit = 1 THEN 1 ELSE 0
          IN IF ~Running(E) THEN E
             ELSE StoreResult([E EXCEPT !.cpu.status.c = c, !.cpu.status.n = 0], E.val \div 2)
    IN F[E0]

\* ROL: C from operand & (1 << 7); result = rotate_left(1) & !1 | old carry
ROL_exec(E0) ==
    LET F[E \in {E0}] ==
          LET old_sign_bit == ToI8(BitAnd(E.val, 128))
              curr_carry_flag == E.cpu.status.c
              rot == ((E.val * 2) % 256) + (E.val \div 128)
              result == BitOr(BitAnd(rot, 254), curr_carry_flag)
          IN IF ~Running(E) THEN E
             ELSE StoreResult([E EXCEPT !.cpu.status.c = IF old_sign_bit = 0 THEN 0 ELSE 1], result)
    IN F[E0]

\* ROR: C from operand & 1; result = rotate_right(1) & !(1 << 7) | (old carry << 7)
ROR_exec(E0) ==
    LET F[E \in {E0}] ==
          LET old_bit_zero == BitAnd(E.val, 1)
              curr_carry_flag == E.cpu.status.c
              rot == (E.val \div 2) + ((E.val % 2) * 128)
              result == BitOr(BitAnd(rot, 127), ShlU8(curr_carry_flag, 7))
          IN IF ~Running(E) THEN E
             ELSE StoreResult([E EXCEPT !.cpu.status.c = IF old_bit_zero = 0 THEN 0 ELSE 1], result)
    IN F[E0]

\* INC / DEC: res = operand + d on i8, Z / N from res, mem.write(addr.unwrap(), res)
IncDecMem(E0, d0) ==
    LET F[E \in {E0}, d \in {d0}] ==
          LET res == ToI8(E.val) + d
          IN IF ~Running(E) THEN E
             ELSE IF I8Overflows(res) /\ build = "debug" THEN Panic(E, "i8_overflow")
             ELSE LET E1 == SetZN(E, WrapI8(res) % 256)
                  IN IF E.addr = << >> THEN Panic(E1, "unwrap_none")
                     ELSE [E1 EXCEPT !.cpu.mem = Write(@, E.addr[1], WrapI8(res) % 256)]
    IN F[E0, d0]

\* INX / DEX (onX) and INY / DEY: `self.x += d` on i8, then Z / N from it
IncDecReg(E0, onX0, d0) ==
    LET F[E \in {E0}, onX \in {onX0}, d \in {d0}] ==
          LET old == IF onX THEN E.cpu.x ELSE E.cpu.y
              res == ToI8(old) + d
              r == WrapI8(res) % 256
          IN IF I8Overflows(res) /\ build = "debug" THEN Panic(E, "i8_overflow")
             ELSE IF onX THEN SetZN([E EXCEPT !.cpu.x = r], r)
             ELSE SetZN([E EXCEPT !.cpu.y = r], r)
    IN F[E0, onX0, d0]

\* AND / ORA / EOR: accum op= operand, then Z / N from accum
Logic(E0, op0) ==
    LET F[E \in {E0}, op \in {op0}] ==
          LET r == CASE op = "AND" -> BitAnd(E.cpu.accum, E.val)
                     [] op = "ORA" -> BitOr(E.cpu.accum, E.val)
                     [] op = "EOR" -> BitXor(E.cpu.accum, E.val)
          IN IF ~Running(E) THEN E ELSE SetZN([E EXCEPT !.cpu.accum = r], r)
    IN F[E0, op0]

\* BIT: result = accum & operand; Z if result == 0, V if (result & (1 << 6)) >> 6
\* == 1, N if (result & (1 << 7)) >> 7 == 1, all on i8
BIT_exec(E0) ==
    LET F[E \in {E0}] ==
          LET result == BitAnd(E.cpu.accum, E.val)
          IN IF ~Running(E) THEN E
             ELSE [E EXCEPT !.cpu.status.z = IF result = 0 THEN 1 ELSE 0,
                            !.cpu.status.v = IF SarI8(ToI8(BitAnd(result, 64)), 6) = 1 THEN 1 ELSE 0,
                            !.cpu.status.n = IF SarI8(ToI8(BitAnd(result, 128)), 7) = 1 THEN 1 ELSE 0]
    IN F[E0]

\* STA / STX / STY: mem.write(addr.unwrap(), reg as u8)
StoreReg(E0, r0) ==
    LET F[E \in {E0}, r \in {r0}] ==
          IF ~Running(E) THEN E
          ELSE IF E.addr = << >> THEN Panic(E, "unwrap_none")
          ELSE [E EXCEPT !.cpu.mem = Write(@, E.addr[1], r)]
    IN F[E0, r0]

\* LDX / LDY: reg = operand as i8, then Z / N
LoadIndex(E0, onX0) ==
    LET F[E \in {E0}, onX \in {onX0}] ==
          IF ~Running(E) THEN E
          ELSE IF onX THEN SetZN([E EXCEPT !.cpu.x = E.val], E.val)
          ELSE SetZN([E EXCEPT !.cpu.y = E.val], E.val)
    IN F[E0, onX0]

\* CLC .. SED writing the flag through the flags byte:
\* set_flags(get_flags()) and then the one field
SetFlag_via_byte(E0, f0, v0) ==
    LET F[E \in {E0}, f \in {f0}, v \in {v0}] ==
          [E EXCEPT !.cpu.status = [set_flags(get_flags(E.cpu.status)) EXCEPT ![f] = v]]
    IN F[E0, f0, v0]

\* CLC .. SED: the one status field written
SetFlag(E0, f0, v0) ==
    LET F[E \in {E0}, f \in {f0}, v \in {v0}] ==
          [E EXCEPT !.cpu.status[f] = v]
    IN F[E0, f0, v0]

(***************************************************************************)
(* CPU::execute_instruction, for the mnemonics modelled so far.            *)
(***************************************************************************)
ModelledOps ==
    {"BCC", "BCS", "BEQ", "BMI", "BNE", "BPL", "BVC", "BVS", "BRK", "JMP", "JSR",
     "NOP", "PHA", "PHP", "PLA", "PLP", "RTI", "RTS", "TXS",
     "ADC", "SBC", "CMP", "CPX", "CPY", "ASL", "LSR", "ROL", "ROR",
     "INC", "DEC", "INX", "DEX", "INY", "DEY", "LDA", "AND", "ORA", "EOR",
     "TAX", "TAY", "TXA", "TYA", "TSX",
     "CLC", "SEC", "CLI", "SEI", "CLV", "CLD", "SED",
     "LDX", "LDY", "STA", "STX", "STY", "BIT"}

\* addressing modes get_operand is modelled for
ModelledModes ==
    {"Implicit", "Accumulator", "Immediate", "Relative", "ZeroPage", "ZeroPageX", "ZeroPageY",
     "Absolute", "AbsoluteX", "AbsoluteY", "Indirect", "IndexedIndirect", "IndirectIndexed"}

\* push_byte(pc_lsb); push_byte(pc_msb)  (BRK and JSR)
push_pc(E0) ==
    LET F[E \in {E0}] ==
          push_byte(push_byte(E, E.cpu.pc % 256), E.cpu.pc \div 256)
    IN F[E0]

\* push_byte(self.status.get_flags())  (PHP and BRK)
push_flags(E0) ==
    LET F[E \in {E0}] == push_byte(E, get_flags(E.cpu.status))
    IN F[E0]

\* BRK step 2 and 3: pc from the IRQ vector, set B
load_irq(E0) ==
    LET F[E \in {E0}] ==
          IF ~Running(E) THEN E
          ELSE [E EXCEPT !.cpu.pc = Read(E.cpu.mem, 65534) + Read(E.cpu.mem, 65535) * 256,
                         !.cpu.status.b = 1]
    IN F[E0]

BRK(E) == load_irq(push_flags(push_pc(E)))

JSR(E) == JumpTo(push_pc(E))

\* second pop of RTI / RTS: pc_lsb; pc = pc_lsb | pc_msb << 8 (pc_msb in .val)
pull_pc_lsb(E0) ==
    LET F[E \in {E0}] ==
          LET E1 == pop_byte(E)
          IN IF ~Running(E1) THEN E1
             ELSE [E1 EXCEPT !.cpu.pc = E1.val + E.val * 256]
    IN F[E0]

\* pc_msb = pop_byte(); pc_lsb = pop_byte(); pc = ...
pull_pc(E) == pull_pc_lsb(pop_byte(E))

\* flags = pop_byte(); self.status.set_flags(flags)
set_flags_from(E0) ==
    LET F[E \in {E0}] ==
          IF ~Running(E) THEN E ELSE [E EXCEPT !.cpu.status = set_flags(E.val)]
    IN F[E0]

\* self.accum = operand as i8 (pop_byte for PLA, get_operand for LDA), then Z / N
set_accum_from(E0) ==
    LET F[E \in {E0}] ==
          IF ~Running(E) THEN E ELSE SetZN([E EXCEPT !.cpu.accum = E.val], E.val)
    IN F[E0]

PLP(E) == set_flags_from(pop_byte(E))

RTI(E) == pull_pc(PLP(E))

RTS(E) == pull_pc(E)

PLA(E) == set_accum_from(pop_byte(E))

\* `for _ in 0..inst.cycles { self.tick_clock() }`
charge_cycles(E0, inst0) ==
    LET F[E \in {E0}, inst \in {inst0}] ==
          IF ~Running(E) THEN E ELSE [E EXCEPT !.cpu.cycle = @ + inst.cycles]
    IN F[E0, inst0]

\* the mnemonics whose arm starts with `let (operand, addr) = self.get_operand(..)`
OperandOps ==
    {"BCC", "BCS", "BEQ", "BMI", "BNE", "BPL", "BVC", "BVS", "JMP", "JSR",
     "ADC", "SBC", "CMP", "CPX", "CPY", "ASL", "LSR", "ROL", "ROR", "INC", "DEC",
     "LDA", "LDX", "LDY", "AND", "ORA", "EOR", "STA", "STX", "STY", "BIT"}

\* the match on inst.op; Eo is E after the arm's get_operand call
dispatch(E0, Eo0, inst0) ==
    LET F[E \in {E0}, Eo \in {Eo0}, inst \in {inst0}] ==
          LET op == inst.op
              s == E.cpu.status
          IN CASE op = "BCC" -> Branch(Eo, s.c = 0)
           [] op = "BCS" -> Branch(Eo, s.c = 1)
           [] op = "BEQ" -> Branch(Eo, s.z = 1)
           [] op = "BMI" -> Branch(Eo, s.n = 1)
           [] op = "BNE" -> Branch(Eo, s.z = 0)
           [] op = "BPL" -> Branch(Eo, s.n = 0)
           [] op = "BVC" -> Branch(Eo, s.v = 0)
           [] op = "BVS" -> Branch(Eo, s.v = 1)
           [] op = "BRK" -> BRK(E)
           [] op = "JMP" -> JumpTo(Eo)
           [] op = "JSR" -> JSR(Eo)
           [] op = "NOP" -> E
           [] op = "PHA" -> push_byte(E, E.cpu.accum)
           [] op = "PHP" -> push_flags(E)
           [] op = "PLA" -> PLA(E)
           [] op = "PLP" -> PLP(E)
           [] op = "RTI" -> RTI(E)
           [] op = "RTS" -> RTS(E)
           [] op = "TXS" -> [E EXCEPT !.cpu.sp = E.cpu.x]
           [] op = "ADC" -> ADC_exec(Eo)
           [] op = "SBC" -> SBC_exec(Eo)
           [] op = "CMP" -> Compare(Eo, E.cpu.accum)
           [] op = "CPX" -> Compare(Eo, E.cpu.x)
           [] op = "CPY" -> Compare(Eo, E.cpu.y)
           [] op = "ASL" -> ASL_exec(Eo)
           [] op = "LSR" -> LSR_exec(Eo)
           [] op = "ROL" -> ROL_exec(Eo)
           [] op = "ROR" -> ROR_exec(Eo)
           [] op = "INC" -> IncDecMem(Eo, 1)
           [] op = "DEC" -> IncDecMem(Eo, -1)
           [] op = "INX" -> IncDecReg(E, TRUE, 1)
           [] op = "DEX" -> IncDecReg(E, TRUE, -1)
           [] op = "INY" -> IncDecReg(E, FALSE, 1)
           [] op = "DEY" -> IncDecReg(E, FALSE, -1)
           [] op = "LDA" -> set_accum_from(Eo)
           [] op \in {"AND", "ORA", "EOR"} -> Logic(Eo, op)
           [] op = "TAX" -> [E EXCEPT !.cpu.x = E.cpu.accum]
           [] op = "TAY" -> [E EXCEPT !.cpu.y = E.cpu.accum]
           [] op = "TXA" -> [E EXCEPT !.cpu.accum = E.cpu.x]
           [] op = "TYA" -> [E EXCEPT !.cpu.accum = E.cpu.y]
           [] op = "TSX" -> [E EXCEPT !.cpu.x = E.cpu.sp]
           [] op = "CLC" -> SetFlag(E, "c", 0)
           [] op = "SEC" -> SetFlag(E, "c", 1)
           [] op = "CLI" -> SetFlag(E, "i", 0)
           [] op = "SEI" -> SetFlag(E, "i", 1)
           [] op = "CLV" -> SetFlag(E, "v", 0)
           [] op = "CLD" -> SetFlag(E, "d", 0)
           [] op = "SED" -> SetFlag(E, "d", 1)
           [] op = "LDX" -> LoadIndex(Eo, TRUE)
           [] op = "LDY" -> LoadIndex(Eo, FALSE)
           [] op = "STA" -> StoreReg(Eo, E.cpu.accum)
           [] op = "STX" -> StoreReg(Eo, E.cpu.x)
           [] op = "STY" -> StoreReg(Eo, E.cpu.y)
           [] op = "BIT" -> BIT_exec(Eo)
    IN F[E0, Eo0, inst0]

execute_instruction(E0, inst0) ==
    LET F[E \in {E0}, inst \in {inst0}] ==
          IF ~Running(E) THEN E
          ELSE charge_cycles(
                 dispatch(E, IF inst.op \in OperandOps THEN get_operand(E, inst.addr_mode) ELSE E,
                          inst),
                 inst)
    IN F[E0, inst0]

(***************************************************************************)
(* CPU::new and the initial bus contents: a program of three bytes at pc,  *)
(* the IRQ vector at 0xFFFE/0xFFFF pointing at an RTI, and a pointer pair  *)
(* at 0x02FF / 0x0300 / 0x0200 for indirect jumps.                          *)
(***************************************************************************)
ProgStarts == {1536, 1790}
Byte0s == {0, 8, 32, 40, 64, 72, 76, 96, 104, 108, 154, 16, 48, 80, 112, 144, 176, 208, 240, 234}
Byte1s == {0, 8, 40, 64, 72, 96, 104, 127, 253, 255, 2}
Byte2s == {8, 2, 104}
InitSps == {253, 0, 255}
InitAccums == {0, 128}
InitFlags == {52, 48, 253}

InitMem(p, b0, b1, b2) ==
    (p :> b0) @@ (p + 1 :> b1) @@ (p + 2 :> b2)
    @@ (65534 :> 0) @@ (65535 :> 4) @@ (1024 :> 64)
    @@ (767 :> 52) @@ (768 :> 18) @@ (512 :> 86)

CPU_new(p, sp, a, f, mem) ==
    [pc |-> p, sp |-> sp, accum |-> a, x |-> 0, y |-> 0,
     status |-> [c |-> Bit(f, 0), z |-> Bit(f, 1), i |-> Bit(f, 2), d |-> Bit(f, 3),
                 b |-> Bit(f, 4), bit_5 |-> Bit(f, 5), v |-> Bit(f, 6), n |-> Bit(f, 7)],
     mem |-> mem, cycle |-> 0]

Init ==
    /\ build \in {"debug", "release"}
    /\ \E p \in ProgStarts, b0 \in Byte0s, b1 \in Byte1s, b2 \in Byte2s,
          sp \in InitSps, a \in InitAccums, f \in InitFlags :
          cpu = CPU_new(p, sp, a, f, InitMem(p, b0, b1, b2))
    /\ fault = "none"
    /\ lastAcc = {}
    /\ hist = << >>

(***************************************************************************)
(* CPU::advance_cpu: fetch (pc += 1), decode, execute, pc += size - 1.     *)
(***************************************************************************)
\* fetch_instruction: pc += 1 after reading the opcode
fetch_pc(E0) ==
    LET F[E \in {E0}] ==
          IF E.cpu.pc = 65535 /\ build = "debug" THEN Panic(E, "u16_overflow")
          ELSE [E EXCEPT !.cpu.pc = (@ + 1) % 65536]
    IN F[E0]

\* self.pc += (inst.size - 1) as u16
pc_advance(E0, inst0) ==
    LET F[E \in {E0}, inst \in {inst0}] ==
          IF ~Running(E) THEN E
          ELSE IF E.cpu.pc + inst.size - 1 > 65535 /\ build = "debug"
               THEN Panic(E, "u16_overflow")
               ELSE [E EXCEPT !.cpu.pc = (@ + inst.size - 1) % 65536]
    IN F[E0, inst0]

advance_cpu ==
    /\ fault = "none"
    /\ Len(hist) < MaxSteps
    /\ LET opcode == Read(cpu.mem, cpu.pc)
           inst == Instruction_new(opcode)
       IN /\ inst.op \in ModelledOps
          /\ inst.addr_mode \in ModelledModes
          /\ \E Ea \in {pc_advance(execute_instruction(fetch_pc(
                            [cpu |-> cpu, fault |-> "none", acc |-> {}, val |-> 0, addr |-> << >>]),
                            inst), inst)} :
                /\ cpu' = Ea.cpu
                /\ fault' = Ea.fault
                /\ lastAcc' = Ea.acc
                /\ hist' = Append(hist, [opcode |-> opcode, pre |-> cpu, addr |-> Ea.addr])
    /\ UNCHANGED build

Next == advance_cpu

Spec == Init /\ [][Next]_vars

(***************************************************************************)
(* Arithmetic, logic, shift, transfer and flag instructions: a program of  *)
(* one such instruction at pc, whose operand byte is the value itself      *)
(* (Immediate) or a zero-page cell holding it (ZeroPage), with registers   *)
(* and flags drawn from small sets.                                        *)
(***************************************************************************)
AluOpcodes ==
    {105, 233, 201, 224, 192, 10, 6, 74, 70, 42, 38, 106, 102, 230, 198,
     232, 202, 200, 136, 169, 41, 9, 73, 170, 168, 138, 152, 186, 154,
     24, 56, 88, 120, 184, 216, 248, 234, 36}
AluVals == {0, 1, 127, 128, 255}
AluFlags == {48, 51, 252, 253}
AluSps == {253}
AluZpCells == {16}

InitAluMem(p, op, m, zp) ==
    (p :> op) @@ (p + 1 :> IF Instruction_new(op).addr_mode = "ZeroPage" THEN zp ELSE m)
    @@ (zp :> m)

InitAlu ==
    /\ build \in {"debug", "release"}
    /\ \E p \in ProgStarts, op \in AluOpcodes, a \in AluVals, m \in AluVals, r \in AluVals,
          f \in AluFlags, sp \in AluSps, zp \in AluZpCells :
          cpu = [CPU_new(p, sp, a, f, InitAluMem(p, op, m, zp)) EXCEPT !.x = r, !.y = r]
    /\ fault = "none"
    /\ lastAcc = {}
    /\ hist = << >>

SpecAlu == InitAlu /\ [][Next]_vars

(***************************************************************************)
(* Addressing modes: one load at pc in an absolute, zero-page indexed or   *)
(* indirect mode, with operand bytes and index registers drawn from small  *)
(* sets and pointer pairs stored in the zero page.                          *)
(***************************************************************************)
AddrOpcodes == {173, 181, 182, 189, 185, 161, 177}
AddrLos == {0, 16, 128, 255}
AddrHis == {0, 2, 255}
AddrIdxs == {0, 1, 127, 128, 255}

InitAddrMem(p, op, lo, hi) ==
    (p :> op) @@ (p + 1 :> lo) @@ (p + 2 :> hi)
    @@ (0 :> 52) @@ (1 :> 18) @@ (16 :> 240) @@ (17 :> 2)
    @@ (128 :> 0) @@ (129 :> 5) @@ (255 :> 86) @@ (256 :> 7)

InitAddr ==
    /\ build \in {"debug", "release"}
    /\ \E p \in ProgStarts, op \in AddrOpcodes, lo \in AddrLos, hi \in AddrHis, r \in AddrIdxs,
          f \in InitFlags, sp \in AluSps :
          cpu = [CPU_new(p, sp, 0, f, InitAddrMem(p, op, lo, hi)) EXCEPT !.x = r, !.y = r]
    /\ fault = "none"
    /\ lastAcc = {}
    /\ hist = << >>

SpecAddr == InitAddr /\ [][Next]_vars

(***************************************************************************)
(* Power-on: CPU::new over a bus holding the program LDA #5; STA $10; BRK  *)
(* at the reset-vector address, the reset vector at 0xFFFC/0xFFFD and the  *)
(* IRQ vector at 0xFFFE/0xFFFF.                                             *)
(***************************************************************************)
ResetVecs == {0, 1536}
IrqVecs == {1024, 1280, 1792, 2048, 4096, 8192, 16384, 32768}

InitBootMem(rv, irq) ==
    (rv :> 169) @@ (rv + 1 :> 5) @@ (rv + 2 :> 133) @@ (rv + 3 :> 16) @@ (rv + 4 :> 0)
    @@ (65532 :> rv % 256) @@ (65533 :> rv \div 256)
    @@ (65534 :> irq % 256) @@ (65535 :> irq \div 256)

InitBoot ==
    /\ build \in {"debug", "release"}
    /\ \E rv \in ResetVecs, irq \in IrqVecs :
          cpu = CPU_new(0, 253, 0, 52, InitBootMem(rv, irq))
    /\ fault = "none"
    /\ lastAcc = {}
    /\ hist = << >>

SpecBoot == InitBoot /\ [][Next]_vars

(***************************************************************************)
(* Views of the execution history used by the properties below.           *)
(***************************************************************************)
Last == hist[Len(hist)]
Prev == hist[Len(hist) - 1]
LastOpIs(o) == Len(hist) >= 1 /\ Last.opcode = o
LastTwoAre(o1, o2) == Len(hist) >= 2 /\ Prev.opcode = o1 /\ Last.opcode = o2
StackByte(m, s) == Read(m, STACK_TOP + (s % 256))
OperandWord(h) == Read(h.pre.mem, (h.pre.pc + 1) % 65536) + Read(h.pre.mem, (h.pre.pc + 2) % 65536) * 256
FlagBits(s) == <<s.c, s.z, s.i, s.d, s.v, s.n>>
ByteBits(f) == <<Bit(f, 0), Bit(f, 1), Bit(f, 2), Bit(f, 3), Bit(f, 6), Bit(f, 7)>>

\* C1: a JSR at P with absolute target T pushes P+2 high byte first, then low
\* byte, and jumps to T; an RTS executed next returns to P+3 with sp restored.
C1_JsrRtsRoundTrip ==
    /\ LastOpIs(32) =>
         LET ret == (Last.pre.pc + 2) % 65536
             sp0 == Last.pre.sp
         IN /\ fault = "none"
            /\ StackByte(cpu.mem, sp0) = ret \div 256
            /\ StackByte(cpu.mem, sp0 - 1) = ret % 256
            /\ cpu.sp = (sp0 - 2) % 256
            /\ cpu.pc = OperandWord(Last)
    /\ LastTwoAre(32, 96) =>
         /\ fault = "none"
         /\ cpu.pc = (Prev.pre.pc + 3) % 65536
         /\ cpu.sp = Prev.pre.sp

\* C2: JSR executes without a fault and leaves pc = hi * 256 + lo of its operand.
C2_JsrJumpsToOperand ==
    LastOpIs(32) => (fault = "none" /\ cpu.pc = OperandWord(Last))

\* C3 (shown on the release build): after JMP absolute or indirect, pc is exactly the address get_operand
\* resolved, with no size-based increment on top of it.
C3_JmpSetsPc ==
    (build = "release" /\ Len(hist) >= 1 /\ Last.opcode \in {76, 108}) =>
        (fault = "none" /\ Last.addr # << >> /\ cpu.pc = Last.addr[1])

\* C4 (shown on the release build): JMP ($PPLL) reads the target low byte at $PPLL and the high byte at
\* $PPLL+1, or at $PP00 when LL = $FF.
IndirectTarget(h) ==
    LET ptr == OperandWord(h)
        hiAt == IF ptr % 256 = 255 THEN ptr - 255 ELSE ptr + 1
    IN Read(h.pre.mem, ptr) + Read(h.pre.mem, hiAt) * 256

C4_IndirectPageBug ==
    (build = "release" /\ LastOpIs(108)) => (fault = "none" /\ Last.addr = <<IndirectTarget(Last)>>)

\* C5 (shown on the release build): BRK pushes pc high byte, pc low byte, then the flags byte with B set,
\* loads pc from 0xFFFE/0xFFFF and sets I.
C5_Brk ==
    (build = "release" /\ LastOpIs(0)) =>
        LET pc0 == (Last.pre.pc + 1) % 65536
            sp0 == Last.pre.sp
        IN /\ fault = "none"
           /\ StackByte(cpu.mem, sp0) = pc0 \div 256
           /\ StackByte(cpu.mem, sp0 - 1) = pc0 % 256
           /\ StackByte(cpu.mem, sp0 - 2) = BitOr(get_flags(Last.pre.status), 16)
           /\ cpu.pc = Read(Last.pre.mem, 65534) + Read(Last.pre.mem, 65535) * 256
           /\ cpu.status.i = 1

\* C6: BRK followed by RTI restores sp, resumes at the address BRK pushed and
\* restores C, Z, I, D, V, N as they were before BRK.
C6_BrkRtiRoundTrip ==
    LastTwoAre(0, 64) =>
        /\ fault = "none"
        /\ cpu.sp = Prev.pre.sp
        /\ cpu.pc = (Prev.pre.pc + 1) % 65536
        /\ FlagBits(cpu.status) = FlagBits(Prev.pre.status)

\* C7: stack accesses stay in 0x0100-0x01FF, a push decrements and a pop
\* increments sp modulo 256, and no stack operation faults at the wrap.
C7_StackDiscipline ==
    /\ fault # "sp_overflow"
    /\ lastAcc \subseteq 256..511
    /\ (Len(hist) >= 1 /\ Last.opcode \in {8, 72} /\ fault = "none") => cpu.sp = (Last.pre.sp - 1) % 256
    /\ (Len(hist) >= 1 /\ Last.opcode \in {40, 104} /\ fault = "none") => cpu.sp = (Last.pre.sp + 1) % 256

\* C8: PHA followed by PLA restores the accumulator and sp; Z and N come from
\* the pulled value only.
C8_PhaPlaRoundTrip ==
    LastTwoAre(72, 104) =>
        LET a == Prev.pre.accum
        IN /\ fault = "none"
           /\ cpu.accum = a
           /\ cpu.sp = Prev.pre.sp
           /\ cpu.status.z = (IF a = 0 THEN 1 ELSE 0)
           /\ cpu.status.n = Bit(a, 7)

C8_Witness ==
    LastTwoAre(72, 104) /\ fault = "none" /\ cpu.accum = 128 /\ cpu.status.n = 1

\* C9: PHP pushes the flags byte with bits 4 and 5 set; PLP makes each of
\* C, Z, I, D, V, N equal the pulled bit, so PLP then PHP pushes pulled OR 0x30.
PulledByte(h) == StackByte(h.pre.mem, h.pre.sp + 1)

C9_PhpPlpFlags ==
    /\ LastOpIs(8) =>
         /\ Bit(StackByte(cpu.mem, Last.pre.sp), 4) = 1
         /\ Bit(StackByte(cpu.mem, Last.pre.sp), 5) = 1
    /\ (LastOpIs(40) /\ fault = "none") => FlagBits(cpu.status) = ByteBits(PulledByte(Last))
    /\ (LastTwoAre(40, 8) /\ fault = "none") =>
         StackByte(cpu.mem, Last.pre.sp) = BitOr(PulledByte(Prev), 48)

\* C10: a branch not taken leaves pc = P + 2 and costs 2 cycles; taken, pc =
\* P + 2 + offset and it costs 3 cycles on the same page as P + 2, else 4.
BranchTaken(o, s) ==
    CASE o = 144 -> s.c = 0 [] o = 176 -> s.c # 0
      [] o = 240 -> s.z # 0 [] o = 208 -> s.z = 0
      [] o = 48 -> s.n # 0  [] o = 16 -> s.n = 0
      [] o = 80 -> s.v = 0  [] o = 112 -> s.v # 0

C10_BranchTiming ==
    (Len(hist) >= 1 /\ Last.opcode \in {16, 48, 80, 112, 144, 176, 208, 240}) =>
        LET next == (Last.pre.pc + 2) % 65536
            target == (next + ToI8(Read(Last.pre.mem, (Last.pre.pc + 1) % 65536))) % 65536
            spent == cpu.cycle - Last.pre.cycle
        IN /\ fault = "none"
           /\ IF BranchTaken(Last.opcode, Last.pre.status)
              THEN /\ cpu.pc = target
                   /\ spent = IF target \div 256 = next \div 256 THEN 3 ELSE 4
              ELSE /\ cpu.pc = next
                   /\ spent = 2

\* The operand byte and effective address an instruction of h addresses, as
\* the 6502 defines them for the Immediate, Accumulator and ZeroPage modes.
EffMode(h) == Instruction_new(h.opcode).addr_mode
OperandByte(h) == Read(h.pre.mem, (h.pre.pc + 1) % 65536)
EffOperand(h) ==
    CASE EffMode(h) = "ZeroPage" -> Read(h.pre.mem, OperandByte(h))
      [] EffMode(h) = "Accumulator" -> h.pre.accum
      [] OTHER -> OperandByte(h)
ZFlag(r) == IF r = 0 THEN 1 ELSE 0

\* C11: ADC sets A' = (A + M + c) mod 256, C = (A + M + c >= 256), V = the
\* operands' signs agree and A' has the other sign, Z = (A' = 0), N = bit 7 of A'.
C11_AdcSemantics ==
    LastOpIs(105) =>
        LET A == Last.pre.accum
            M == EffOperand(Last)
            sum == A + M + Last.pre.status.c
            r == sum % 256
        IN /\ fault = "none"
           /\ cpu.accum = r
           /\ cpu.status.c = (IF sum >= 256 THEN 1 ELSE 0)
           /\ cpu.status.v = (IF Bit(A, 7) = Bit(M, 7) /\ Bit(r, 7) # Bit(A, 7) THEN 1 ELSE 0)
           /\ cpu.status.z = ZFlag(r)
           /\ cpu.status.n = Bit(r, 7)

\* C12: SBC sets A' = (A - M - (1 - c)) mod 256, C = 1 iff no borrow, V = the
\* subtraction's two's-complement overflow, Z = (A' = 0), N = bit 7 of A'.
C12_SbcSemantics ==
    LastOpIs(233) =>
        LET A == Last.pre.accum
            M == EffOperand(Last)
            borrow == 1 - Last.pre.status.c
            diff == A - M - borrow
            r == diff % 256
        IN /\ fault = "none"
           /\ cpu.accum = r
           /\ cpu.status.c = (IF diff >= 0 THEN 1 ELSE 0)
           /\ cpu.status.v = (IF I8Overflows(ToI8(A) - ToI8(M) - borrow) THEN 1 ELSE 0)
           /\ cpu.status.z = ZFlag(r)
           /\ cpu.status.n = Bit(r, 7)

\* The register compared by CMP (0xC9), CPX (0xE0) or CPY (0xC0) in state c.
CmpReg(o, c) == CASE o = 201 -> c.accum [] o = 224 -> c.x [] o = 192 -> c.y

\* C13: CMP / CPX / CPY set C = (R >= M unsigned), Z = (R = M), N = bit 7 of
\* (R - M) mod 256, and leave the registers unchanged.
C13_CompareUnsigned ==
    (Len(hist) >= 1 /\ Last.opcode \in {201, 224, 192}) =>
        LET R == CmpReg(Last.opcode, Last.pre)
            M == EffOperand(Last)
        IN /\ fault = "none"
           /\ cpu.status.c = (IF R >= M THEN 1 ELSE 0)
           /\ cpu.status.z = (IF R = M THEN 1 ELSE 0)
           /\ cpu.status.n = Bit((R - M) % 256, 7)
           /\ <<cpu.accum, cpu.x, cpu.y>> = <<Last.pre.accum, Last.pre.x, Last.pre.y>>

\* Where the result of the instruction of h lands: the zero-page cell it
\* addresses, else the accumulator.
ResultAt(h) ==
    IF EffMode(h) = "ZeroPage" THEN Read(cpu.mem, OperandByte(h)) ELSE cpu.accum

\* C14: ASL gives (v << 1) mod 256 with C = old bit 7, LSR gives v >> 1 with
\* C = old bit 0; Z / N from the result; the result goes to the addressed cell
\* or to the accumulator.
C14_ShiftSemantics ==
    (Len(hist) >= 1 /\ Last.opcode \in {10, 6, 74, 70}) =>
        LET v == EffOperand(Last)
            isAsl == Last.opcode \in {10, 6}
            r == IF isAsl THEN (v * 2) % 256 ELSE v \div 2
        IN /\ fault = "none"
           /\ cpu.status.c = (IF isAsl THEN Bit(v, 7) ELSE Bit(v, 0))
           /\ cpu.status.z = ZFlag(r)
           /\ cpu.status.n = Bit(r, 7)
           /\ ResultAt(Last) = r

\* C15: ROL gives ((v << 1) | c) mod 256 with C = old bit 7, ROR gives
\* (v >> 1) | (c << 7) with C = old bit 0, c being the carry before the
\* instruction; the result goes to the addressed cell or the accumulator, and
\* Z / N reflect it.
C15_RotateSemantics ==
    (Len(hist) >= 1 /\ Last.opcode \in {42, 38, 106, 102}) =>
        LET v == EffOperand(Last)
            c == Last.pre.status.c
            isRol == Last.opcode \in {42, 38}
            r == IF isRol THEN (v * 2 + c) % 256 ELSE (v \div 2) + c * 128
        IN /\ fault = "none"
           /\ cpu.status.c = (IF isRol THEN Bit(v, 7) ELSE Bit(v, 0))
           /\ ResultAt(Last) = r
           /\ cpu.status.z = ZFlag(r)
           /\ cpu.status.n = Bit(r, 7)

\* The byte INC / DEC (memory), INX / DEX (X) or INY / DEY (Y) works on, in
\* state c, for the instruction of h.
IncTarget(h, c) ==
    CASE h.opcode \in {230, 198} -> Read(c.mem, OperandByte(h))
      [] h.opcode \in {232, 202} -> c.x
      [] OTHER -> c.y

\* C16: increments give (v + 1) mod 256 and decrements (v - 1) mod 256 with no
\* fault, Z / N from the new value, in memory for INC / DEC and in X / Y for
\* the register forms.
C16_IncDecWrap ==
    (Len(hist) >= 1 /\ Last.opcode \in {230, 198, 232, 202, 200, 136}) =>
        LET d == IF Last.opcode \in {230, 232, 200} THEN 1 ELSE 255
            r == (IncTarget(Last, Last.pre) + d) % 256
        IN /\ fault = "none"
           /\ IncTarget(Last, cpu) = r
           /\ cpu.status.z = ZFlag(r)
           /\ cpu.status.n = Bit(r, 7)

\* C17: LDA #v sets the accumulator to v, Z = (v = 0) and N = bit 7 of v.
C17_LdaImmediate ==
    LastOpIs(169) =>
        LET v == OperandByte(Last)
        IN /\ fault = "none"
           /\ cpu.accum = v
           /\ cpu.status.z = ZFlag(v)
           /\ cpu.status.n = Bit(v, 7)

C17_Witness ==
    LastOpIs(169) /\ OperandByte(Last) = 128 /\ fault = "none" /\ cpu.accum = 128
    /\ cpu.status.n = 1 /\ Last.pre.status.n = 0

\* The 6502 AND (0x29), ORA (0x09) or EOR (0x49) of bytes a and m, bit by bit.
LogicOf(o, a, m) ==
    LET bit(k) == CASE o = 41 -> Bit(a, k) * Bit(m, k)
                    [] o = 9 -> Bit(a, k) + Bit(m, k) - Bit(a, k) * Bit(m, k)
                    [] o = 73 -> (Bit(a, k) + Bit(m, k)) % 2
    IN bit(0) + 2 * bit(1) + 4 * bit(2) + 8 * bit(3) + 16 * bit(4) + 32 * bit(5)
       + 64 * bit(6) + 128 * bit(7)

\* C18: AND / ORA / EOR set A' = A op M bitwise, Z = (A' = 0), N = bit 7 of
\* A', and leave the other flags unchanged.
C18_LogicalOps ==
    (Len(hist) >= 1 /\ Last.opcode \in {41, 9, 73}) =>
        LET r == LogicOf(Last.opcode, Last.pre.accum, EffOperand(Last))
            s0 == Last.pre.status
        IN /\ fault = "none"
           /\ cpu.accum = r
           /\ cpu.status.z = ZFlag(r)
           /\ cpu.status.n = Bit(r, 7)
           /\ <<cpu.status.c, cpu.status.i, cpu.status.d, cpu.status.b, cpu.status.bit_5, cpu.status.v>>
              = <<s0.c, s0.i, s0.d, s0.b, s0.bit_5, s0.v>>

C18_Witness ==
    /\ LastOpIs(73) /\ fault = "none"
    /\ Last.pre.accum = 255 /\ EffOperand(Last) = 255
    /\ cpu.accum = 0 /\ cpu.status.z = 1 /\ Last.pre.status.z = 0

\* Source and destination of TAX (0xAA), TAY (0xA8), TXA (0x8A), TYA (0x98),
\* TSX (0xBA) in states p and c.
XferSrc(o, p) ==
    CASE o \in {170, 168} -> p.accum [] o = 138 -> p.x [] o = 152 -> p.y [] o = 186 -> p.sp
XferDst(o, c) ==
    CASE o \in {170, 186} -> c.x [] o = 168 -> c.y [] o \in {138, 152} -> c.accum

\* C19: TAX, TAY, TXA, TYA, TSX copy the source into the destination and set
\* Z / N from it; TXS copies X into sp and changes no flag.
C19_Transfers ==
    /\ (Len(hist) >= 1 /\ Last.opcode \in {170, 168, 138, 152, 186}) =>
         LET v == XferSrc(Last.opcode, Last.pre)
         IN /\ fault = "none"
            /\ XferDst(Last.opcode, cpu) = v
            /\ cpu.status.z = ZFlag(v)
            /\ cpu.status.n = Bit(v, 7)
    /\ LastOpIs(154) =>
         /\ fault = "none"
         /\ cpu.sp = Last.pre.x
         /\ cpu.status = Last.pre.status

\* The flag written by CLC, SEC, CLI, SEI, CLV, CLD, SED and its new value.
FlagOpOf ==
    (24 :> <<"c", 0>>) @@ (56 :> <<"c", 1>>) @@ (88 :> <<"i", 0>>) @@ (120 :> <<"i", 1>>)
    @@ (184 :> <<"v", 0>>) @@ (216 :> <<"d", 0>>) @@ (248 :> <<"d", 1>>)

\* C20: each flag instruction changes exactly its one flag and leaves the
\* registers, the other flags, sp and memory unchanged, pc advancing by 1;
\* NOP (0xEA) changes nothing but pc (+1) and the cycle counter.
C20_FlagInstrs ==
    /\ (Len(hist) >= 1 /\ Last.opcode \in DOMAIN FlagOpOf) =>
         LET fv == FlagOpOf[Last.opcode]
         IN /\ fault = "none"
            /\ cpu.status = [Last.pre.status EXCEPT ![fv[1]] = fv[2]]
            /\ cpu.pc = (Last.pre.pc + 1) % 65536
            /\ <<cpu.accum, cpu.x, cpu.y, cpu.sp, cpu.mem>>
               = <<Last.pre.accum, Last.pre.x, Last.pre.y, Last.pre.sp, Last.pre.mem>>
    /\ LastOpIs(234) =>
         /\ fault = "none"
         /\ cpu.pc = (Last.pre.pc + 1) % 65536
         /\ [cpu EXCEPT !.pc = Last.pre.pc, !.cycle = Last.pre.cycle] = Last.pre

C20_Witness ==
    LastOpIs(248) /\ fault = "none" /\ Last.pre.status.d = 0 /\ cpu.status.d = 1
    /\ cpu.pc = Last.pre.pc + 1

\* C21: ZeroPageX and ZeroPageY resolve to (b + index) mod 256, without fault.
C21_ZeroPageIndexed ==
    (Len(hist) >= 1 /\ EffMode(Last) \in {"ZeroPageX", "ZeroPageY"}) =>
        LET r == IF EffMode(Last) = "ZeroPageX" THEN Last.pre.x ELSE Last.pre.y
        IN fault = "none" /\ Last.addr = <<(OperandByte(Last) + r) % 256>>

\* The index an indexed mode of h adds, as an unsigned byte (0 when unindexed).
IndexOf(h) ==
    CASE EffMode(h) \in {"AbsoluteX", "ZeroPageX", "IndexedIndirect"} -> h.pre.x
      [] EffMode(h) \in {"AbsoluteY", "ZeroPageY", "IndirectIndexed"} -> h.pre.y
      [] OTHER -> 0

\* C22: Absolute resolves to mem[pc] | mem[pc+1] << 8, and AbsoluteX /
\* AbsoluteY add the unsigned X / Y to it modulo 65536.
C22_AbsoluteAddr ==
    (Len(hist) >= 1 /\ EffMode(Last) \in {"Absolute", "AbsoluteX", "AbsoluteY"}) =>
        fault = "none" /\ Last.addr = <<(OperandWord(Last) + IndexOf(Last)) % 65536>>

\* The little-endian word at zero-page slot z of h's memory, the high byte
\* fetched from (z + 1) mod 256.
ZpWord(h, z) == Read(h.pre.mem, z) + Read(h.pre.mem, (z + 1) % 256) * 256

\* C23: (zp,X) resolves to the word at zero-page slot (b + X) mod 256; (zp),Y
\* to the word at slot b plus the unsigned Y, modulo 65536.
C23_IndirectAddr ==
    /\ (Len(hist) >= 1 /\ EffMode(Last) = "IndexedIndirect") =>
         fault = "none" /\ Last.addr = <<ZpWord(Last, (OperandByte(Last) + Last.pre.x) % 256)>>
    /\ (Len(hist) >= 1 /\ EffMode(Last) = "IndirectIndexed") =>
         fault = "none" /\ Last.addr = <<(ZpWord(Last, OperandByte(Last)) + Last.pre.y) % 65536>>

\* The extra cycles the 6502 charges for the instruction of h: +1 for a taken
\* branch and +1 more when it lands on another page than P + 2; +1 when an
\* AbsoluteX / AbsoluteY / IndirectIndexed read crosses a page from its base.
ReadOps == {"ADC", "AND", "CMP", "EOR", "LDA", "LDX", "LDY", "ORA", "SBC"}
Penalty(h) ==
    IF h.opcode \in {16, 48, 80, 112, 144, 176, 208, 240}
    THEN IF BranchTaken(h.opcode, h.pre.status)
         THEN LET next == (h.pre.pc + 2) % 65536
                  target == (next + ToI8(OperandByte(h))) % 65536
              IN IF target \div 256 = next \div 256 THEN 1 ELSE 2
         ELSE 0
    ELSE IF Instruction_new(h.opcode).op \in ReadOps
            /\ EffMode(h) \in {"AbsoluteX", "AbsoluteY", "IndirectIndexed"}
    THEN LET base == IF EffMode(h) = "IndirectIndexed" THEN ZpWord(h, OperandByte(h))
                     ELSE OperandWord(h)
         IN IF base \div 256 = ((base + IndexOf(h)) % 65536) \div 256 THEN 0 ELSE 1
    ELSE 0

\* C24: each completed advance adds exactly the table's base cycles plus the
\* penalties to the cycle counter, so the counter never decreases.
C24_CycleAccounting ==
    (Len(hist) >= 1 /\ fault = "none") =>
        /\ cpu.cycle >= Last.pre.cycle
        /\ cpu.cycle - Last.pre.cycle = Instruction_new(Last.opcode).cycles + Penalty(Last)

\* Documented 6502 decode entries (mnemonic, mode, base cycles, size).
DocTable ==
    (25 :> Instr("ORA", "AbsoluteY", 4, 3)) @@ (166 :> Instr("LDX", "ZeroPage", 3, 2))
    @@ (32 :> Instr("JSR", "Absolute", 6, 3)) @@ (169 :> Instr("LDA", "Immediate", 2, 2))
    @@ (181 :> Instr("LDA", "ZeroPageX", 4, 2)) @@ (234 :> Instr("NOP", "Implicit", 2, 1))
    @@ (108 :> Instr("JMP", "Indirect", 5, 3)) @@ (0 :> Instr("BRK", "Implicit", 7, 1))
ControlOps == {"BCC", "BCS", "BEQ", "BMI", "BNE", "BPL", "BVC", "BVS", "BRK", "JMP", "JSR", "RTI", "RTS"}

\* C25: decoding gives the documented mnemonic, mode, cycles and size, and a
\* non-control-flow instruction moves pc past exactly its documented size.
C25_DecodeTable ==
    /\ \A o \in DOMAIN DocTable : Instruction_new(o) = DocTable[o]
    /\ (Len(hist) >= 1 /\ fault = "none" /\ Last.opcode \in DOMAIN DocTable
        /\ DocTable[Last.opcode].op \notin ControlOps) =>
         cpu.pc = (Last.pre.pc + DocTable[Last.opcode].size) % 65536

\* C26: advancing over an opcode with no official assignment yields an
\* outcome (the decoded descriptor) distinguishable from the real NOP 0xEA,
\* while still acting as a 1-byte, 2-cycle no-op.
C26_IllegalDistinct ==
    (Len(hist) >= 1 /\ Last.opcode \notin DOMAIN OpTable) =>
        /\ Instruction_new(Last.opcode) # Instruction_new(234)
        /\ cpu.pc = (Last.pre.pc + 1) % 65536
        /\ cpu.cycle = Last.pre.cycle + 2

\* C27: no advance from a reachable state panics.
C27_NoFault == fault = "none"

\* C28: with LDA #5; STA $10; BRK at the reset-vector address, two advances
\* leave A = 5, mem[0x10] = 5, Z = 0, N = 0, and the third executes BRK and
\* sets pc to the IRQ vector contents.
C28_EndToEnd ==
    /\ Len(hist) = 2 =>
         /\ fault = "none"
         /\ cpu.accum = 5 /\ Read(cpu.mem, 16) = 5
         /\ cpu.status.z = 0 /\ cpu.status.n = 0
    /\ Len(hist) = 3 =>
         /\ fault = "none" /\ Last.opcode = 0
         /\ cpu.pc = Read(cpu.mem, 65534) + Read(cpu.mem, 65535) * 256

\* C29: at construction pc holds the reset vector, sp = 0xFD and I = 1.
C29_ResetState ==
    Len(hist) = 0 =>
        /\ cpu.pc = Read(cpu.mem, 65532) + Read(cpu.mem, 65533) * 256
        /\ cpu.sp = 253
        /\ cpu.status.i = 1

\* C30: every status field holds 0 or 1 after any sequence of instructions.
C30_FlagsAreBits ==
    \A f \in {"c", "z", "i", "d", "b", "bit_5", "v", "n"} : cpu.status[f] \in {0, 1}

====
